---------------------------- MODULE Spec2Model ----------------------------
(***************************************************************************)
(* A model of pairwise_group_classification.py: the helper _findMin, the   *)
(* functions test and fit, and the __main__ script that runs the           *)
(* load / fit / test pipeline for every pair of clinical groups.           *)
(*                                                                         *)
(* Representation of numbers.                                              *)
(*  - Points of the plane are pairs <<x, y>> of integers.  The anchors of  *)
(*    threshold are written in units of 1/4000, so that the quarter points *)
(*    of the segments between them are integer points as well.             *)
(*  - np.linalg.norm is represented by its square.  Squaring is strictly   *)
(*    increasing on the non-negative reals, so every comparison of two     *)
(*    distances, and every test "distance = 0", has the same outcome on    *)
(*    the squares; the sentinel -1 stays distinct from every distance.     *)
(*  - accuracy and AUC are fractions <<numerator, denominator>>.           *)
(*  - Python lists are sequences; a Python index d is position d + 1.      *)
(***************************************************************************)
EXTENDS Integers, Sequences, FiniteSets, TLC

VARIABLES
    pc,                 \* position of the control in the entry point exercised
    fm_p, fm_A, fm_ret, \* _findMin: arguments and returned point
    py_seed, np_seed,   \* seeds of random and of np.random (<<>> until seeded)
    threshold,          \* the array threshold of __main__ / argument of test, fit
    chained_view,       \* does df.loc[row] give a view of the frame (TRUE) or a copy
    i, rest,            \* outer loop index (Python, 0-based); groups left for the inner loop
    groups,             \* the tuple (group1, group2) of the current pair
    ts, os,             \* training and out-of-sample collections
    reg,                \* the regressor: the pair and set it was fitted on, what it may predict
    fit_y,              \* fit: the list y of regression targets (local, seen until the next step)
    predicted_raw,      \* test: reg.predict(x)            (local, seen in a direct call of test)
    predicted_labels,   \* test: labels of the predictions (local, seen until the next step)
    y_labels,           \* test: labels of the true values (local, seen until the next step)
    accuracy, auc,      \* values returned by the last call of test
    accuracy_results, auc_results,   \* the two results tables
    writes,             \* number of assignments that reached each cell of the tables
    returned,           \* what test returned in the run of each pair
    trace,              \* the steps executed so far by __main__
    log                 \* what the logger was given

vars == <<pc, fm_p, fm_A, fm_ret, py_seed, np_seed, threshold,
          chained_view, i, rest, groups, ts, os, reg, fit_y, predicted_raw,
          predicted_labels, y_labels, accuracy, auc, accuracy_results,
          auc_results, writes, returned, trace, log>>

(***************************************************************************)
(* Bounds of the model.                                                    *)
(***************************************************************************)
GridMax == 1     \* _findMin is exercised on the points of (0..GridMax) x (0..GridMax)
MaxLen  == 3     \* longest list A given to _findMin
MaxPart == 2     \* largest collection given to a direct call of test
MaxData == 4     \* most participants buildData finds for a pair

(***************************************************************************)
(* _findMin                                                                *)
(***************************************************************************)
\* np.linalg.norm(p0 - np.array(p)), as its square (see the header).
norm(p0, p) == (p0[1] - p[1]) * (p0[1] - p[1]) + (p0[2] - p[2]) * (p0[2] - p[2])

\* The initial value of m: the sentinel distance -1 and the point (0, 0).
m_init == << -1, <<0, 0>> >>

\* Variant of Replaces: an equally near candidate replaces the best as well.
ReplacesKeepLast(m, dist) == m[1] = -1 \/ m[1] >= dist

\* Variant of Replaces: the comparison is reversed.
ReplacesFarthest(m, dist) == m[1] = -1 \/ m[1] < dist

\* The test of line 55: the candidate replaces the current best.
Replaces(m, dist) == m[1] = -1 \/ m[1] > dist

RECURSIVE findMinLoop(_, _, _)
\* The loop "for p0 in A" over what is left of A, from the current m.
findMinLoop(p, A, m) ==
    IF A = <<>> THEN m
    ELSE LET p0   == Head(A)
             dist == norm(p0, p)
         IN  findMinLoop(p, Tail(A), IF Replaces(m, dist) THEN <<dist, p0>> ELSE m)

\* _findMin(p, A): the point kept in m after the loop.
findMin(p, A) == findMinLoop(p, A, m_init)[2]


(***************************************************************************)
(* threshold, participants and collections                                 *)
(***************************************************************************)
\* Variant of threshold_value: the third anchor repeats the second.
threshold_duplicate == << <<4000, 0>>, <<0, 4000>>, <<0, 4000>> >>

\* Variant of threshold_value: the third anchor lies next to the middle of the
\* segment between the first two.
threshold_obtuse == << <<4000, 0>>, <<0, 4000>>, <<2000, 2400>> >>

\* The array threshold of lines 153-155, in units of 1/4000:
\* (1, 0), (0, 1), (-1/sqrt(2), -1/sqrt(2)).
threshold_value == << <<4000, 0>>, <<0, 4000>>, <<-2828, -2828>> >>

\* The tuple diagnosis of line 159.
diagnosis == <<"healthy", "bipolar", "borderline">>

Groups == {diagnosis[k] : k \in 1..Len(diagnosis)}

\* The diagnosis code the loader gives the participants of a group: the integer
\* that indexes threshold.  The loader is not part of this file; the groups
\* are numbered in the order of the tuple diagnosis.  _findMin and test treat
\* the three codes alike, and every pair of codes is the coding of some pair.
diagnosis_code(group) == CHOOSE d \in 0..2 : diagnosis[d + 1] = group

Participant(d) == [diagnosis |-> d]

\* The collections of at most n participants with diagnoses in codes.
Collections(codes, n) ==
    UNION {[1..len -> {Participant(d) : d \in codes}] : len \in 0..n}

\* list[d] for a Python index d.
item(list, d) == list[d + 1]

\* list.index(val): the first Python index at which val occurs.
index(list, val) ==
    CHOOSE d \in 0..(Len(list) - 1) :
        /\ list[d + 1] = val
        /\ \A e \in 0..(d - 1) : list[e + 1] # val

\* The list y of fit and of test: threshold[X.diagnosis] for each participant.
targets(collection, thr) ==
    [k \in 1..Len(collection) |-> item(thr, collection[k].diagnosis)]

(***************************************************************************)
(* The regressor                                                           *)
(***************************************************************************)
\* The quarter points of the segment from a to b.
Segment(a, b) ==
    {<<a[1] + ((b[1] - a[1]) * k) \div 4, a[2] + ((b[2] - a[2]) * k) \div 4>> :
        k \in 0..4}

\* A random forest predicts averages of training targets: points between them.
Hull(points) == UNION {Segment(a, b) : a \in points, b \in points}

\* Points a regressor not fitted by fit may predict: the anchors, points of the
\* segments between them, and points away from the segments.
PredPoints ==
    Hull({threshold_value[k] : k \in 1..3})
        \cup {<<0, 0>>, <<4000, 4000>>, <<-4000, -4000>>, <<-4000, 4000>>, <<4000, -4000>>}

NoReg == [run |-> <<>>, trained_on |-> <<>>, range |-> {}]

\* Any regressor handed to test by a caller other than __main__.
AnyReg == [run |-> <<>>, trained_on |-> <<>>, range |-> PredPoints]

\* reg.fit(x, y) raises on an empty training set.
fit_raises(collection) == Len(collection) = 0

\* fit(collection, threshold): the regressor trained on the collection, with
\* the targets y. run names the pair in whose run the object was created.
fit(collection, thr, run) ==
    [run |-> run, trained_on |-> collection,
     range |-> Hull({targets(collection, thr)[k] : k \in 1..Len(collection)})]

(***************************************************************************)
(* test                                                                    *)
(***************************************************************************)
\* predicted: the anchor _findMin gives for every raw prediction (line 93).
predicted_of(raw, thr) == [k \in 1..Len(raw) |-> findMin(raw[k], thr)]

\* The labels of lines 96-97: the index in threshold of every point.
labels_of(points, thr) == [k \in 1..Len(points) |-> index(thr, points[k])]

\* Variant of accuracy_score: the fraction of unequal labels.
accuracy_score_errors(y_true, y_pred) ==
    <<Cardinality({k \in 1..Len(y_true) : y_true[k] # y_pred[k]}), Len(y_true)>>

\* accuracy_score(y_true, y_pred): the fraction of equal labels.
accuracy_score(y_true, y_pred) ==
    <<Cardinality({k \in 1..Len(y_true) : y_true[k] = y_pred[k]}), Len(y_true)>>

Classes(y_true) == {y_true[k] : k \in 1..Len(y_true)}

\* roc_auc_score raises unless exactly two classes occur in y_true.
roc_auc_raises(y_true) == Cardinality(Classes(y_true)) # 2

\* roc_auc_score(y_true, y_score) for two classes, the greater one positive:
\* the fraction of (positive, negative) pairs ranked in order, ties counting half.
roc_auc_score(y_true, y_score) ==
    LET pos   == CHOOSE c \in Classes(y_true) : \A d \in Classes(y_true) : d <= c
        P     == {k \in 1..Len(y_true) : y_true[k] = pos}
        N     == {k \in 1..Len(y_true) : y_true[k] # pos}
        wins  == {pr \in P \X N : y_score[pr[1]] > y_score[pr[2]]}
        ties  == {pr \in P \X N : y_score[pr[1]] = y_score[pr[2]]}
    IN  <<2 * Cardinality(wins) + Cardinality(ties), 2 * Cardinality(P) * Cardinality(N)>>

\* The body of test up to the scores, for one outcome raw of reg.predict(x).
TestLocals(collection, raw, thr) ==
    /\ predicted_labels' = labels_of(predicted_of(raw, thr), thr)
    /\ y_labels' = labels_of(targets(collection, thr), thr)

(***************************************************************************)
(* __main__                                                                *)
(***************************************************************************)
NaN == <<>>

\* pd.DataFrame(index=diagnosis, columns=diagnosis): every cell is NaN.
empty_table == [row \in Groups |-> [col \in Groups |-> NaN]]

no_writes == [cell \in {"accuracy", "auc"} \X Groups \X Groups |-> 0]

nothing_returned == [pair \in Groups \X Groups |-> <<>>]

\* Variant of inner_groups: diagnosis[i:], which starts at group1 itself.
inner_groups_from_self(n) == SubSeq(diagnosis, n + 1, Len(diagnosis))

\* diagnosis[i + 1:], the groups of the inner loop (i is a Python index).
inner_groups(n) == SubSeq(diagnosis, n + 2, Len(diagnosis))

\* Variant of after: the test follows the load, the fit is left out.
after_without_fit(step) ==
    CASE step = "load"           -> "test"
      [] step = "fit"            -> "test"
      [] step = "test"           -> "store_accuracy"
      [] step = "store_accuracy" -> "store_auc"
      [] step = "store_auc"      -> "inner"

\* The statement that follows each statement of the loop body (lines 169-189).
after(step) ==
    CASE step = "load"           -> "fit"
      [] step = "fit"            -> "test"
      [] step = "test"           -> "store_accuracy"
      [] step = "store_accuracy" -> "store_auc"
      [] step = "store_auc"      -> "inner"

\* Variant of uncaught: the exception is swallowed and the loop goes on.
caught_and_continued == "inner"

\* Where the control goes when a statement raises: no try/except encloses the
\* loop or its body, so the exception ends the script.
uncaught == "error"

\* table.loc[row][col] = val: .loc[row] yields the row, and the assignment
\* sets an entry of that row.  It reaches the table only when the row is a
\* view of the table's data; when it is a copy the table is left as it was.
chained_setitem(table, row, col, val) ==
    IF chained_view THEN [table EXCEPT ![row][col] = val] ELSE table

text(words) == <<"text", words>>

MainLocals == <<fit_y, predicted_raw, predicted_labels, y_labels>>
FindMinVars == <<fm_p, fm_A, fm_ret>>
Tables == <<accuracy_results, auc_results, writes>>

\* A statement of the loop body raises: nothing else changes.
Raise(step, said) ==
    /\ pc' = uncaught
    /\ trace' = Append(trace, <<"raise", step>>)
    /\ log' = log \o said
    /\ UNCHANGED <<FindMinVars, py_seed, np_seed, threshold, chained_view, i, rest,
                   groups, ts, os, reg, MainLocals, accuracy, auc, Tables, returned>>

\* Line 150.
SeedRandom ==
    /\ pc = "seed_random"
    /\ py_seed' = <<83042>>
    /\ pc' = "seed_numpy"
    /\ UNCHANGED <<FindMinVars, np_seed, threshold, chained_view, i, rest, groups, ts,
                   os, reg, MainLocals, accuracy, auc, Tables, returned, trace, log>>

\* Line 151.
SeedNumpy ==
    /\ pc = "seed_numpy"
    /\ np_seed' = <<83042>>
    /\ pc' = "setup"
    /\ UNCHANGED <<FindMinVars, py_seed, threshold, chained_view, i, rest, groups, ts,
                   os, reg, MainLocals, accuracy, auc, Tables, returned, trace, log>>

\* Lines 153-164: threshold, the two tables, the logger; the outer loop starts.
Setup ==
    /\ pc = "setup"
    /\ threshold' = threshold_value
    /\ accuracy_results' = empty_table
    /\ auc_results' = empty_table
    /\ i' = 0
    /\ pc' = "outer"
    /\ UNCHANGED <<FindMinVars, py_seed, np_seed, chained_view, rest, groups, ts, os,
                   reg, MainLocals, accuracy, auc, writes, returned, trace, log>>

\* Line 166: the next group1, or the end of the outer loop.
Outer ==
    /\ pc = "outer"
    /\ IF i < Len(diagnosis)
       THEN /\ rest' = inner_groups(i)
            /\ pc' = "inner"
       ELSE /\ rest' = rest
            /\ pc' = "report"
    /\ UNCHANGED <<FindMinVars, py_seed, np_seed, threshold, chained_view, i, groups,
                   ts, os, reg, MainLocals, accuracy, auc, Tables, returned, trace, log>>

\* Lines 167-169: the next group2 and groups, or the end of the inner loop.
Inner ==
    /\ pc = "inner"
    /\ IF rest # <<>>
       THEN /\ groups' = <<item(diagnosis, i), Head(rest)>>
            /\ rest' = Tail(rest)
            /\ i' = i
            /\ pc' = "load"
       ELSE /\ i' = i + 1
            /\ pc' = "outer"
            /\ UNCHANGED <<groups, rest>>
    /\ UNCHANGED <<FindMinVars, py_seed, np_seed, threshold, chained_view, ts, os,
                   reg, MainLocals, accuracy, auc, Tables, returned, trace, log>>

\* What psychiatry.buildData(20, "../data", training=0.7, groups=pair) may
\* return: the participants of the two groups, in any order and number, the
\* first 7/10 of them (rounded down) as training set and the others as
\* out-of-sample set.
buildData(pair) ==
    LET codes == {diagnosis_code(pair[1]), diagnosis_code(pair[2])}
        cut(data) == (7 * Len(data)) \div 10
    IN  {<<SubSeq(data, 1, cut(data)), SubSeq(data, cut(data) + 1, Len(data))>> :
            data \in Collections(codes, MaxData)}

\* Lines 172-175.
Load ==
    /\ pc = "load"
    /\ \/ \E sets \in buildData(groups) :
            /\ ts' = sets[1]
            /\ os' = sets[2]
            /\ log' = log \o <<text(<<"Loading", groups[1], groups[2]>>), text(<<"Done">>)>>
            /\ trace' = Append(trace, <<"load", groups[1], groups[2]>>)
            /\ pc' = after("load")
            /\ UNCHANGED <<FindMinVars, py_seed, np_seed, threshold, chained_view, i,
                           rest, groups, reg, MainLocals, accuracy, auc, Tables, returned>>
       \/ Raise("load", <<text(<<"Loading", groups[1], groups[2]>>)>>)

\* Lines 178-180.
Fit ==
    /\ pc = "fit"
    /\ \/ /\ ~fit_raises(ts)
          /\ reg' = fit(ts, threshold, groups)
          /\ fit_y' = targets(ts, threshold)
          /\ log' = log \o <<text(<<"Training the model">>), text(<<"Done">>)>>
          /\ trace' = Append(trace, <<"fit", groups[1], groups[2]>>)
          /\ pc' = after("fit")
          /\ UNCHANGED <<FindMinVars, py_seed, np_seed, threshold, chained_view, i, rest,
                         groups, ts, os, predicted_raw, predicted_labels, y_labels,
                         accuracy, auc, Tables, returned>>
       \/ Raise("fit", <<text(<<"Training the model">>)>>)

\* What reg.predict(x) may return for a collection: one point per participant.
predict(r, collection) == [1..Len(collection) -> r.range]

\* test(collection, reg, threshold) returns, reg.predict(x) having given raw:
\* the locals and the two scores.
TestReturns(collection, r, thr, raw) ==
    /\ r # NoReg
    /\ TestLocals(collection, raw, thr)
    /\ ~roc_auc_raises(y_labels')
    /\ accuracy' = accuracy_score(y_labels', predicted_labels')
    /\ auc' = roc_auc_score(y_labels', predicted_labels')

\* Lines 183-185.
Test ==
    /\ pc = "test"
    /\ \/ /\ \E raw \in predict(reg, os) : TestReturns(os, reg, threshold, raw)
          /\ predicted_raw' = <<>>
          /\ returned' = [returned EXCEPT ![groups] = <<accuracy', auc'>>]
          /\ log' = log \o <<text(<<"Testing the model">>), text(<<"Done">>)>>
          /\ trace' = Append(trace, <<"test", groups[1], groups[2]>> \o reg.run)
          /\ fit_y' = <<>>
          /\ pc' = after("test")
          /\ UNCHANGED <<FindMinVars, py_seed, np_seed, threshold, chained_view, i, rest,
                         groups, ts, os, reg, Tables>>
       \/ Raise("test", <<text(<<"Testing the model">>)>>)

\* Line 188.
StoreAccuracy ==
    /\ pc = "store_accuracy"
    /\ accuracy_results' = chained_setitem(accuracy_results, groups[1], groups[2], accuracy)
    /\ auc_results' = auc_results
    /\ writes' = IF chained_view
                 THEN [writes EXCEPT ![<<"accuracy", groups[1], groups[2]>>] = @ + 1]
                 ELSE writes
    /\ predicted_labels' = <<>>
    /\ y_labels' = <<>>
    /\ trace' = Append(trace, <<"store_accuracy", groups[1], groups[2]>>)
    /\ pc' = after("store_accuracy")
    /\ UNCHANGED <<FindMinVars, py_seed, np_seed, threshold, chained_view, i, rest,
                   groups, ts, os, reg, fit_y, predicted_raw, accuracy, auc, returned, log>>

\* Line 189.
StoreAuc ==
    /\ pc = "store_auc"
    /\ auc_results' = chained_setitem(auc_results, groups[1], groups[2], auc)
    /\ accuracy_results' = accuracy_results
    /\ writes' = IF chained_view
                 THEN [writes EXCEPT ![<<"auc", groups[1], groups[2]>>] = @ + 1]
                 ELSE writes
    /\ trace' = Append(trace, <<"store_auc", groups[1], groups[2]>>)
    /\ pc' = after("store_auc")
    /\ UNCHANGED <<FindMinVars, py_seed, np_seed, threshold, chained_view, i, rest,
                   groups, ts, os, reg, MainLocals, accuracy, auc, returned, log>>

\* Lines 192-199: the two tables are given to the logger.
Report ==
    /\ pc = "report"
    /\ log' = log \o <<text(<<"Results">>), text(<<"Accuracy:">>),
                       <<"table", accuracy_results>>, text(<<"AUC:">>),
                       <<"table", auc_results>>>>
    /\ trace' = Append(trace, <<"report">>)
    /\ pc' = "done"
    /\ UNCHANGED <<FindMinVars, py_seed, np_seed, threshold, chained_view, i, rest,
                   groups, ts, os, reg, MainLocals, accuracy, auc, Tables, returned>>

\* The script starts: nothing is bound yet.  chained_view is a property of the
\* pandas in use, fixed for the run.
Init ==
    /\ pc = "seed_random"
    /\ fm_p = <<>> /\ fm_A = <<>> /\ fm_ret = <<>>
    /\ py_seed = <<>> /\ np_seed = <<>>
    /\ threshold = <<>>
    /\ chained_view \in BOOLEAN
    /\ i = 0 /\ rest = <<>> /\ groups = <<>>
    /\ ts = <<>> /\ os = <<>>
    /\ reg = NoReg
    /\ fit_y = <<>> /\ predicted_raw = <<>> /\ predicted_labels = <<>> /\ y_labels = <<>>
    /\ accuracy = NaN /\ auc = NaN
    /\ accuracy_results = <<>> /\ auc_results = <<>>
    /\ writes = no_writes
    /\ returned = nothing_returned
    /\ trace = <<>>
    /\ log = <<>>

Next ==
    \/ SeedRandom
    \/ SeedNumpy
    \/ Setup
    \/ Outer
    \/ Inner
    \/ Load
    \/ Fit
    \/ Test
    \/ StoreAccuracy
    \/ StoreAuc
    \/ Report

Spec == Init /\ [][Next]_vars

(***************************************************************************)
(* A direct call of test, for the out-of-sample set of a pair and any       *)
(* trained regressor.                                                       *)
(***************************************************************************)
\* The pairs (group1, group2) with group1 listed before group2 in diagnosis.
Pairs ==
    {<<diagnosis[ab[1]], diagnosis[ab[2]]>> :
        ab \in {x \in (1..Len(diagnosis)) \X (1..Len(diagnosis)) : x[1] < x[2]}}

PairCodes(pair) == {diagnosis_code(pair[1]), diagnosis_code(pair[2])}

InitTest ==
    /\ pc = "call_test"
    /\ groups \in Pairs
    /\ os \in Collections(PairCodes(groups), MaxPart)
    /\ reg = AnyReg
    /\ threshold = threshold_value
    /\ fm_p = <<>> /\ fm_A = <<>> /\ fm_ret = <<>>
    /\ py_seed = <<>> /\ np_seed = <<>>
    /\ chained_view = TRUE
    /\ i = 0 /\ rest = <<>>
    /\ ts = <<>>
    /\ fit_y = <<>> /\ predicted_raw = <<>> /\ predicted_labels = <<>> /\ y_labels = <<>>
    /\ accuracy = NaN /\ auc = NaN
    /\ accuracy_results = <<>> /\ auc_results = <<>>
    /\ writes = no_writes
    /\ returned = nothing_returned
    /\ trace = <<>>
    /\ log = <<>>

\* test(os, reg, threshold) (lines 60-102) returns acc, roc.
TestCall ==
    /\ pc = "call_test"
    /\ \E raw \in predict(reg, os) :
          /\ TestReturns(os, reg, threshold, raw)
          /\ predicted_raw' = raw
    /\ pc' = "test_returned"
    /\ UNCHANGED <<FindMinVars, py_seed, np_seed, threshold, chained_view, i, rest,
                   groups, ts, os, reg, fit_y, Tables, returned, trace, log>>

\* test(os, reg, threshold) raises: roc_auc_score refuses the labels, or
\* another library call fails.
TestCallRaises ==
    /\ pc = "call_test"
    /\ pc' = "test_raised"
    /\ UNCHANGED <<FindMinVars, py_seed, np_seed, threshold, chained_view, i, rest,
                   groups, ts, os, reg, MainLocals, accuracy, auc, Tables, returned,
                   trace, log>>

NextTest ==
    \/ TestCall
    \/ TestCallRaises

SpecTest == InitTest /\ [][NextTest]_vars

(***************************************************************************)
(* A direct call of _findMin.                                               *)
(***************************************************************************)
Grid == (0..GridMax) \X (0..GridMax)

Lists == UNION {[1..len -> Grid] : len \in 0..MaxLen}

InitFindMin ==
    /\ pc = "call_findMin"
    /\ fm_p \in Grid
    /\ fm_A \in Lists
    /\ fm_ret = <<>>
    /\ py_seed = <<>> /\ np_seed = <<>>
    /\ threshold = <<>>
    /\ chained_view = TRUE
    /\ i = 0 /\ rest = <<>> /\ groups = <<>>
    /\ ts = <<>> /\ os = <<>>
    /\ reg = NoReg
    /\ fit_y = <<>> /\ predicted_raw = <<>> /\ predicted_labels = <<>> /\ y_labels = <<>>
    /\ accuracy = NaN /\ auc = NaN
    /\ accuracy_results = <<>> /\ auc_results = <<>>
    /\ writes = no_writes
    /\ returned = nothing_returned
    /\ trace = <<>>
    /\ log = <<>>

\* _findMin(p, A) (lines 34-58) returns.
FindMinCall ==
    /\ pc = "call_findMin"
    /\ fm_ret' = findMin(fm_p, fm_A)
    /\ pc' = "findMin_returned"
    /\ UNCHANGED <<fm_p, fm_A, py_seed, np_seed, threshold, chained_view, i, rest,
                   groups, ts, os, reg, MainLocals, accuracy, auc, Tables, returned,
                   trace, log>>

NextFindMin == FindMinCall

SpecFindMin == InitFindMin /\ [][NextFindMin]_vars

(***************************************************************************)
(* Properties                                                              *)
(***************************************************************************)
FindMinReturned == pc = "findMin_returned" /\ fm_A # <<>>

\* C1: for every point p and non-empty list A, _findMin(p, A) returns a member
\* of A whose distance to p is at most the distance from p to every point of A.
C1_FindMinNearest ==
    FindMinReturned =>
        /\ \E k \in 1..Len(fm_A) : fm_A[k] = fm_ret
        /\ \A k \in 1..Len(fm_A) : norm(fm_ret, fm_p) <= norm(fm_A[k], fm_p)

\* C1 witness: the nearest point is not the first of A, and A holds a farther point.
C1_Witness ==
    /\ FindMinReturned
    /\ fm_ret # fm_A[1]
    /\ norm(fm_ret, fm_p) < norm(fm_A[1], fm_p)

\* C9: among the points of A at minimal distance from p, _findMin returns the
\* first one: a later point replaces the best only when strictly nearer, and a
\* first point at distance 0 (p itself) is kept.
C9_FirstOfTheNearest ==
    FindMinReturned =>
        /\ \E k \in 1..Len(fm_A) :
              /\ fm_ret = fm_A[k]
              /\ \A j \in 1..Len(fm_A) : norm(fm_A[k], fm_p) <= norm(fm_A[j], fm_p)
              /\ \A j \in 1..(k - 1) : norm(fm_A[j], fm_p) > norm(fm_A[k], fm_p)
        /\ fm_A[1] = fm_p => fm_ret = fm_A[1]

\* C9 witness: two different points of A are both nearest, the first is returned.
C9_Witness ==
    /\ FindMinReturned
    /\ \E j \in 1..Len(fm_A), k \in 1..Len(fm_A) :
          /\ j < k
          /\ fm_A[j] # fm_A[k]
          /\ norm(fm_A[j], fm_p) = norm(fm_A[k], fm_p)
          /\ \A l \in 1..Len(fm_A) : norm(fm_A[j], fm_p) <= norm(fm_A[l], fm_p)
          /\ fm_ret = fm_A[j]

IsLoad(e) == e[1] = "load"

\* The pairs whose run has begun (whose data was loaded), in order.
Runs ==
    LET loads == SelectSeq(trace, IsLoad)
    IN  [k \in 1..Len(loads) |-> <<loads[k][2], loads[k][3]>>]

IsPrefix(s, t) == Len(s) <= Len(t) /\ \A k \in 1..Len(s) : s[k] = t[k]

\* C2: the pipeline runs once per unordered pair of distinct groups: the runs
\* are, in this order, (healthy, bipolar), (healthy, borderline), (bipolar,
\* borderline); all three have run when the loops end; no group is paired
\* with itself and no pair runs in both orders.
C2_ThreeRunsInOrder ==
    /\ IsPrefix(Runs, << <<"healthy", "bipolar">>, <<"healthy", "borderline">>,
                         <<"bipolar", "borderline">> >>)
    /\ pc \in {"report", "done"} => Len(Runs) = 3
    /\ \A k \in 1..Len(Runs) :
          /\ Runs[k][1] # Runs[k][2]
          /\ \A j \in 1..Len(Runs) :
                j # k => Runs[j] # Runs[k] /\ Runs[j] # <<Runs[k][2], Runs[k][1]>>

\* C2 witness: the script has ended after its three runs.
C2_Witness == pc = "done" /\ Len(Runs) = 3

\* C3: in each pair run the steps are load, fit, test, store, in this order;
\* the regressor tested is the one fitted in the same run on that run's
\* training set; the tables are logged only after all three runs have stored.
C3_StepsInOrder ==
    /\ \A k \in 1..Len(trace) :
          LET e == trace[k]
              pair == <<e[2], e[3]>>
          IN  /\ e[1] = "load" =>
                    /\ k = 1 \/ trace[k - 1][1] = "store_auc"
                    /\ k < Len(trace) =>
                          trace[k + 1] \in {<<"fit", e[2], e[3]>>, <<"raise", "fit">>}
              /\ e[1] = "fit" => k > 1 /\ trace[k - 1] = <<"load", e[2], e[3]>>
              /\ e[1] = "test" =>
                    /\ k > 1 /\ trace[k - 1] = <<"fit", e[2], e[3]>>
                    /\ <<e[4], e[5]>> = pair
              /\ e[1] = "store_accuracy" =>
                    /\ k > 1 /\ trace[k - 1] = <<"test", e[2], e[3], e[2], e[3]>>
              /\ e[1] = "store_auc" =>
                    /\ k > 1 /\ trace[k - 1] = <<"store_accuracy", e[2], e[3]>>
              /\ e[1] = "report" =>
                    \A pr \in Pairs :
                        \E j \in 1..(k - 1) : trace[j] = <<"store_auc", pr[1], pr[2]>>
    /\ pc \in {"store_accuracy", "store_auc"} =>
          reg.run = groups /\ reg.trained_on = ts

\* C3 witness: a complete script run, the tables logged last.
C3_Witness == pc = "done" /\ Len(trace) = 16 /\ trace[16] = <<"report">>

\* C4: when the results are logged, the cell (group1, group2) of both tables
\* holds the accuracy and the AUC test returned in that pair's run, for every
\* pair with group1 before group2; each such cell was written exactly once;
\* no other cell was ever written.
C4_TablesFilled ==
    pc = "done" =>
        \A pr \in Groups \X Groups :
            IF pr \in Pairs
            THEN /\ accuracy_results[pr[1]][pr[2]] = returned[pr][1]
                 /\ auc_results[pr[1]][pr[2]] = returned[pr][2]
                 /\ writes[<<"accuracy", pr[1], pr[2]>>] = 1
                 /\ writes[<<"auc", pr[1], pr[2]>>] = 1
            ELSE /\ accuracy_results[pr[1]][pr[2]] = NaN
                 /\ auc_results[pr[1]][pr[2]] = NaN
                 /\ writes[<<"accuracy", pr[1], pr[2]>>] = 0
                 /\ writes[<<"auc", pr[1], pr[2]>>] = 0

\* C5: threshold, once bound, is never modified; the target of every training
\* participant in fit is threshold[diagnosis]; the true label of every
\* participant in test is the index of threshold[diagnosis] in threshold, and
\* that index is the participant's diagnosis.
C5_ThresholdFixed ==
    /\ [](/\ fit_y # <<>> =>
                /\ Len(fit_y) = Len(ts)
                /\ \A k \in 1..Len(ts) : fit_y[k] = item(threshold, ts[k].diagnosis)
          /\ y_labels # <<>> =>
                /\ Len(y_labels) = Len(os)
                /\ \A k \in 1..Len(os) :
                      /\ y_labels[k] = os[k].diagnosis
                      /\ item(threshold, y_labels[k]) = item(threshold, os[k].diagnosis))
    /\ [][threshold # <<>> => threshold' = threshold]_vars

\* C5 witness: test has labelled a participant of the third diagnosis.
C5_Witness ==
    /\ pc = "store_accuracy"
    /\ \E k \in 1..Len(os) : os[k].diagnosis = 2 /\ y_labels[k] = 2

\* C6: the accuracy test returns is the number of participants whose predicted
\* point has the anchor of their own diagnosis as the nearest anchor (as
\* _findMin decides), divided by the number of participants.
C6_AccuracyIsNearestAnchorRate ==
    pc = "test_returned" =>
        accuracy = <<Cardinality({k \in 1..Len(os) :
                          findMin(predicted_raw[k], threshold)
                              = item(threshold, os[k].diagnosis)}),
                     Len(os)>>

\* C6 witness: test returned with one participant classified rightly and one wrongly.
C6_Witness == pc = "test_returned" /\ Len(os) = 2 /\ accuracy = <<1, 2>>

Raised == \E k \in 1..Len(trace) : trace[k][1] = "raise"

\* C7: once a load, fit or test has raised, the script does nothing more: no
\* later step, nothing more logged, the tables neither written nor logged.
C7_FailuresEndTheScript ==
    [][/\ Raised => trace' = trace /\ log' = log /\ UNCHANGED Tables
       /\ Raised' =>
             /\ \A k \in 1..Len(trace') : trace'[k][1] # "report"
             /\ \A k \in 1..Len(log') : log'[k][1] # "table"]_vars

\* C7 witness: the test of the second pair has raised, after a complete first run.
C7_Witness ==
    /\ Raised
    /\ trace[Len(trace)] = <<"raise", "test">>
    /\ groups = <<"healthy", "borderline">>

\* C8, as claimed: in a pair's run every class test assigns is one of the two
\* groups of the pair, whatever point the regressor predicts.
C8_OnlyClassesOfThePair ==
    pc = "test_returned" =>
        \A k \in 1..Len(os) : predicted_labels[k] \in PairCodes(groups)

\* C8, amended: in a pair's run the class test assigns to a participant is one
\* of the two groups of the pair whenever the predicted point lies on the
\* segment between the two anchors of the pair.
C8_ClassesOfThePairOnSegment ==
    pc = "test_returned" =>
        \A k \in 1..Len(os) :
            predicted_raw[k] \in Segment(item(threshold, diagnosis_code(groups[1])),
                                         item(threshold, diagnosis_code(groups[2])))
                => predicted_labels[k] \in PairCodes(groups)

\* C8 witness: a prediction strictly between the two anchors of the pair.
C8_Witness ==
    /\ pc = "test_returned"
    /\ \E k \in 1..Len(os) :
          /\ predicted_raw[k] \in Segment(item(threshold, diagnosis_code(groups[1])),
                                          item(threshold, diagnosis_code(groups[2])))
          /\ predicted_raw[k] \notin {threshold[d] : d \in 1..3}

=============================================================================
